---- MODULE Spec2Model ----
(***************************************************************************)
(* Model of slidev-addon-react: the <React> bridge component               *)
(* (components/React.vue, both script variants kept in that file) and the  *)
(* attribute sanitizer (utils/filter-props.ts).                            *)
(*                                                                         *)
(* Spec        : the bridge; host events start renderReact calls, whose    *)
(*               continuations after each await are separate steps.        *)
(* FilterSpec  : filterProps applied to attribute bags drawn from bounded  *)
(*               sets of keys and values.                                  *)
(***************************************************************************)
EXTENDS Integers, Sequences, FiniteSets, TLC

(***************************************************************************)
(* Bounds                                                                  *)
(***************************************************************************)
NumBridges == 2
MaxInFlight == 2
MaxEvents == 3
MaxKeys == 2

Bridges == 1..NumBridges
Slots == 1..MaxInFlight

(***************************************************************************)
(* JavaScript values.  Every value is a record of one shape:               *)
(*   t    : the kind of value                                              *)
(*   id   : object identity (0 for primitives); two objects are the same   *)
(*          reference iff they are the same record                         *)
(*   v    : primitive payload, as text                                     *)
(*   mark : the __v_isVNode property: "none" (absent), "true" (truthy),    *)
(*          "false" (present but falsy)                                    *)
(*   in   : contained values (fields / elements / wrapped value / raw)     *)
(***************************************************************************)
Prim(t, v) == [t |-> t, id |-> 0, v |-> v, mark |-> "none", in |-> <<>>]
Obj(id, mark, in) == [t |-> "obj", id |-> id, v |-> "", mark |-> mark, in |-> in]
Arr(id, in) == [t |-> "arr", id |-> id, v |-> "", mark |-> "none", in |-> in]
Fn(id) == [t |-> "func", id |-> id, v |-> "", mark |-> "none", in |-> <<>>]
RefOf(id, val) == [t |-> "ref", id |-> id, v |-> "", mark |-> "none", in |-> <<val>>]
ReactiveOf(id, raw) == [t |-> "reactive", id |-> id, v |-> "", mark |-> "none", in |-> <<raw>>]
ReadonlyOf(id, raw) == [t |-> "readonly", id |-> id, v |-> "", mark |-> "none", in |-> <<raw>>]
Builtin(t, id) == [t |-> t, id |-> id, v |-> "", mark |-> "none", in |-> <<>>]

VHello == Prim("str", "Hello")
VDark == Prim("str", "dark")
V42 == Prim("num", "42")
VNull == Prim("null", "")
VUndef == Prim("undef", "")
VFn == Fn(1)
OConfig == Obj(2, "none", <<VDark>>)
OVNode == Obj(3, "true", <<>>)
OFalsyMark == Obj(4, "false", <<>>)
ONested == Obj(5, "none", <<OVNode>>)
AItems == Arr(6, <<V42, V42>>)
ANested == Arr(7, <<OVNode>>)
RNum == RefOf(8, V42)
PConfig == ReactiveOf(9, OConfig)
RConfig == RefOf(10, PConfig)
PItems == ReactiveOf(11, AItems)
RVNode == RefOf(12, OVNode)
PVNode == ReactiveOf(13, OVNode)
RNull == RefOf(14, VNull)
RItems == RefOf(15, PItems)
RRef == RefOf(16, RNum)
ROConfig == ReadonlyOf(17, OConfig)
VDate == Builtin("date", 18)
VRegex == Builtin("regex", 19)
VMap == Builtin("map", 20)
VSet == Builtin("set", 21)
VSym == Prim("sym", "test")
VBig == Prim("bigint", "9007199254740991")

Values == {VHello, V42, VNull, VUndef, VFn, OConfig, OVNode, OFalsyMark,
           ONested, AItems, ANested, RNum, PConfig, RConfig, PItems, RVNode,
           PVNode, RNull, RItems, RRef, ROConfig, VDate, VRegex, VMap, VSet,
           VSym, VBig}

(***************************************************************************)
(* Attribute keys are texts: sequences of characters.                      *)
(***************************************************************************)
KTitle == <<"t","i","t","l","e">>
KConfig == <<"c","o","n","f","i","g">>
KClass == <<"c","l","a","s","s">>
KStyle == <<"s","t","y","l","e">>
KClassName == <<"c","l","a","s","s","N","a","m","e">>
KOnClick == <<"o","n","C","l","i","c","k">>
KOnline == <<"o","n","l","i","n","e">>
KOn == <<"o","n">>
KO == <<"o">>
KInternal == <<"_","_","v","n","o","d","e">>
KUnder == <<"_","x">>
KHandleClick == <<"h","a","n","d","l","e","C","l","i","c","k">>

Keys == {KTitle, KConfig, KClass, KStyle, KClassName, KOnClick, KOnline, KOn,
         KO, KInternal, KUnder, KHandleClick}

\* a comparison of the whole key with the prefix
startsWith_WholeKey(key, prefix) == key = prefix

startsWith(key, prefix) ==
  /\ Len(key) >= Len(prefix)
  /\ SubSeq(key, 1, Len(prefix)) = prefix

\* the key test without its `on` clause
SkipKey_NoOn(key) ==
  \/ startsWith(key, <<"_","_">>)
  \/ key = KClass
  \/ key = KStyle

\* key.startsWith('__') || key.startsWith('on') || key === 'class' || key === 'style'
SkipKey(key) ==
  \/ startsWith(key, <<"_","_">>)
  \/ startsWith(key, <<"o","n">>)
  \/ key = KClass
  \/ key = KStyle

\* typeof val
TypeOf(val) ==
  CASE val.t \in {"obj", "arr", "ref", "reactive", "readonly", "null",
                  "date", "regex", "map", "set"} -> "object"
    [] val.t = "func" -> "function"
    [] val.t = "undef" -> "undefined"
    [] val.t = "str" -> "string"
    [] val.t = "num" -> "number"
    [] val.t = "sym" -> "symbol"
    [] OTHER -> val.t

\* '__v_isVNode' in val   (a proxy answers for its target)
RECURSIVE HasVNodeMarker(_)
HasVNodeMarker(val) ==
  IF val.t \in {"reactive", "readonly"}
    THEN HasVNodeMarker(val.in[1])
    ELSE val.mark # "none"

\* (val as any).__v_isVNode, as a truth value
RECURSIVE VNodeMarkerTruthy(_)
VNodeMarkerTruthy(val) ==
  IF val.t \in {"reactive", "readonly"}
    THEN VNodeMarkerTruthy(val.in[1])
    ELSE val.mark = "true"

\* the VNode test looking for the marker inside the value as well
isVNode_Deep(val) ==
  /\ TypeOf(val) = "object"
  /\ val.t # "null"
  /\ \/ HasVNodeMarker(val) /\ VNodeMarkerTruthy(val)
     \/ \E i \in 1..Len(val.in) : val.in[i].mark = "true"

isVNode(val) ==
  /\ TypeOf(val) = "object"
  /\ val.t # "null"
  /\ HasVNodeMarker(val)
  /\ VNodeMarkerTruthy(val)

isRef(val) == val.t = "ref"
unref(val) == IF isRef(val) THEN val.in[1] ELSE val
\* a readonly proxy is reactive iff its target is
RECURSIVE isReactive(_)
isReactive(val) ==
  IF val.t = "readonly" THEN isReactive(val.in[1]) ELSE val.t = "reactive"

\* follows __v_raw through every proxy layer
RECURSIVE toRaw(_)
toRaw(val) ==
  IF val.t \in {"reactive", "readonly"} THEN toRaw(val.in[1]) ELSE val

\* the unwrapping with the toRaw step left out
Unwrap_RefOnly(val) == IF isRef(val) THEN unref(val) ELSE val

\* the unwrapping followed by a copy of every object it yields
Unwrap_Copies(val) ==
  LET v1 == IF isRef(val) THEN unref(val) ELSE val
      v2 == IF isReactive(v1) THEN toRaw(v1) ELSE v1
  IN IF v2.id # 0 /\ v2.t # "func" THEN [v2 EXCEPT !.id = @ + 100] ELSE v2

\* the two unwrapping steps of filterProps, in order
Unwrap(val) ==
  LET v1 == IF isRef(val) THEN unref(val) ELSE val
  IN IF isReactive(v1) THEN toRaw(v1) ELSE v1

\* the keys kept by the old inline loop: primitives and null only
KeptKeys_PrimitivesOnly(attrs) ==
  {k \in DOMAIN attrs : ~SkipKey(k)
                        /\ (TypeOf(attrs[k]) # "object" \/ attrs[k].t = "null")}

KeptKeys(attrs) == {k \in DOMAIN attrs : ~SkipKey(k) /\ ~isVNode(attrs[k])}

\* the bag after the call: the loop reads attrs[key] and assigns only its
\* local `val` and cleanProps
AttrsAfterCall_InPlace(attrs) ==
  [k \in DOMAIN attrs |-> IF SkipKey(k) THEN attrs[k] ELSE Unwrap(attrs[k])]

AttrsAfterCall(attrs) == attrs

filterProps(attrs) == [k \in KeptKeys(attrs) |-> Unwrap(attrs[k])]


(***************************************************************************)
(* Bags of attributes                                                      *)
(***************************************************************************)
\* one value of each kind the filter tells apart
CoreValues == {VHello, VFn, OConfig, OVNode, RNum, PConfig, RRef, ROConfig}

\* bags of one or two keys carry every value, larger bags one of each kind
Bag(K) == [K -> IF Cardinality(K) <= 2 THEN Values ELSE CoreValues]
KCount == <<"c","o","u","n","t">>
KItems == <<"i","t","e","m","s">>

\* {title:"Hello", count:42, class:"x", onClick:fn, config:{theme:"dark"}, items:[...]}
ScenarioBag ==
  [k \in {KTitle, KCount, KClass, KOnClick, KConfig, KItems} |->
     CASE k = KTitle -> VHello
       [] k = KCount -> V42
       [] k = KClass -> VDark
       [] k = KOnClick -> VFn
       [] k = KConfig -> OConfig
       [] k = KItems -> AItems]

Bags == UNION {Bag(K) : K \in {S \in SUBSET Keys : Cardinality(S) <= MaxKeys}}
          \cup {ScenarioBag}

EmptyBag == [k \in {} |-> VNull]

\* the attribute bags the host binds on a bridge
Bag0 == [k \in {KTitle} |-> VHello]
BridgeBags ==
  { Bag0,
    [k \in {KTitle, KConfig, KOnClick} |->
        IF k = KTitle THEN VHello ELSE IF k = KConfig THEN OConfig ELSE VFn],
    [k \in {KConfig} |-> OVNode] }

(***************************************************************************)
(* The registry source and the guest runtime                               *)
(***************************************************************************)
Undefined == "undefined"

\* the mapping the registry source provides: name -> component
RegistryModule == [n \in {"Counter", "Card"} |->
                     IF n = "Counter" THEN "CounterFn" ELSE "CardFn"]
EmptyRegistry == [n \in {} |-> Undefined]

\* values of the `is` prop
Names == {"Counter", "Card", "Missing", "constructor"}

\* what every plain object inherits from Object.prototype
Inherited == [n \in {"constructor"} |-> "ObjectFn"]

\* registry?.[props.is], for a loaded registry: own properties first, then
\* the prototype of the plain object
Lookup(reg, name) ==
  IF name \in DOMAIN reg THEN reg[name]
  ELSE IF name \in DOMAIN Inherited THEN Inherited[name]
  ELSE Undefined

(***************************************************************************)
(* The directory-scan registry (the glob script of React.vue)              *)
(***************************************************************************)
MaxFiles == 3

\* '/react-components/'
ComponentDir == <<"/","r","e","a","c","t","-","c","o","m","p","o","n","e","n","t","s","/">>
ExtJsx == <<".","j","s","x">>
ExtTsx == <<".","t","s","x">>

endsWith(s, suffix) ==
  /\ Len(s) >= Len(suffix)
  /\ SubSeq(s, Len(s) - Len(suffix) + 1, Len(s)) = suffix

\* the files of a project: path, default export (Undefined: none)
\* and source text ("jsx": guest syntax, "": an empty file)
File(path, def, code) == [path |-> path, default |-> def, code |-> code]
FCounterJsx == File(ComponentDir \o <<"C","o","u","n","t","e","r",".","j","s","x">>, "CounterFn", "jsx")
FCardTsx == File(ComponentDir \o <<"C","a","r","d",".","t","s","x">>, "CardFn", "jsx")
FUiCardJsx == File(ComponentDir \o <<"u","i","/","C","a","r","d",".","j","s","x">>, "UiCardFn", "jsx")
FCounterTsx == File(ComponentDir \o <<"C","o","u","n","t","e","r",".","t","s","x">>, "CounterTsFn", "jsx")
FCardTestJsx == File(ComponentDir \o <<"C","a","r","d",".","t","e","s","t",".","j","s","x">>, "CardTestFn", "jsx")
FLibCounterJsx == File(ComponentDir \o <<"l","i","b","/","C","o","u","n","t","e","r",".","j","s","x">>, Undefined, "")
FIndexTs == File(ComponentDir \o <<"i","n","d","e","x",".","t","s">>, "IndexMap", "ts")
FOtherJsx == File(<<"/","c","o","m","p","o","n","e","n","t","s","/","O","t","h","e","r",".","j","s","x">>, "OtherFn", "jsx")
FDemoAppJsx == File(<<"/","r","e","a","c","t","-","c","o","m","p","o","n","e","n","t","s","-","d","e","m","o","/","A","p","p",".","j","s","x">>, "AppFn", "jsx")
ProjectFiles == {FCounterJsx, FCardTsx, FUiCardJsx, FCounterTsx, FCardTestJsx,
                 FLibCounterJsx, FIndexTs, FOtherJsx, FDemoAppJsx}

\* import.meta.glob('/react-components/**/*.{jsx,tsx}'): the paths it selects
GlobMatch(path) ==
  /\ startsWith(path, ComponentDir)
  /\ endsWith(path, ExtJsx) \/ endsWith(path, ExtTsx)

\* `modules`: the selected files, in the order the files are enumerated
GlobModules(fs) == SelectSeq(fs, LAMBDA f : GlobMatch(f.path))

\* path.split('/').pop() that keeps the directory part
pop_WholePath(path) == path

\* path.split('/').pop(): the text after the last '/'
pop(path) ==
  LET slashes == {i \in 1..Len(path) : path[i] = "/"}
  IN IF slashes = {} THEN path
     ELSE SubSeq(path, (CHOOSE i \in slashes : \A j \in slashes : j <= i) + 1,
                 Len(path))

\* .replace(/\.(jsx|tsx)$/, '')
replaceExt(s) ==
  IF endsWith(s, ExtJsx) \/ endsWith(s, ExtTsx)
    THEN SubSeq(s, 1, Len(s) - 4)
    ELSE s

\* const name = path.split('/').pop()?.replace(/\.(jsx|tsx)$/, '') || ''
ComponentName(path) == replaceExt(pop(path))

EmptyScan == [n \in {} |-> Undefined]

\* the loop body that keeps the first export registered under a name
RegisterModule_FirstWins(reg, mod) ==
  LET name == ComponentName(mod.path)
  IN IF name # <<>> /\ mod.default # Undefined /\ name \notin DOMAIN reg
       THEN [n \in DOMAIN reg \cup {name} |->
               IF n = name THEN mod.default ELSE reg[n]]
       ELSE reg

\* if (name && mod.default) registry[name] = mod.default
RegisterModule(reg, mod) ==
  LET name == ComponentName(mod.path)
  IN IF name # <<>> /\ mod.default # Undefined
       THEN [n \in DOMAIN reg \cup {name} |->
               IF n = name THEN mod.default ELSE reg[n]]
       ELSE reg

\* registry = {}; for (const path in modules) { ... }
RECURSIVE ScanModules(_, _)
ScanModules(reg, mods) ==
  IF mods = <<>> THEN reg
  ELSE ScanModules(RegisterModule(reg, Head(mods)), Tail(mods))

(***************************************************************************)
(* The build pipeline (setup/vite-plugins)                                 *)
(***************************************************************************)
Setups == 1..3
\* the skip signal of a hook: `return null`
Null == [null |-> TRUE]

\* 'react-components'
ReactComponents == <<"r","e","a","c","t","-","c","o","m","p","o","n","e","n","t","s">>
ExtTs == <<".","t","s">>

\* id.includes(text)
includes(id, text) ==
  \E i \in 0..(Len(id) - Len(text)) : SubSeq(id, i + 1, i + Len(text)) = text

\* /\.[jt]sx$/.test(id)
TestJtsx(id) == endsWith(id, ExtJsx) \/ endsWith(id, ExtTsx)

\* esbuild.transform(code, { loader, jsx: 'automatic', ... }): an object
\* with the compiled code and the source map (a map only with sourcemap: true)
esbuildTransform(code, st) ==
  [code |-> IF code = "jsx" THEN "js" ELSE code,
   map |-> IF st = 2 /\ code # "" THEN "map" ELSE ""]

\* async transform(code, id) of the addon's plugin
transform(code, id, st) ==
  IF ~includes(id, ReactComponents) \/ ~TestJtsx(id)
    THEN Null
    ELSE esbuildTransform(code, st)

\* the bundler's own transform of .ts, .jsx and .tsx modules
hostTransform(code, id) ==
  IF TestJtsx(id) \/ endsWith(id, ExtTs)
    THEN [code |-> "js", map |-> ""]
    ELSE Null

\* the addon's transform plugin left without an enforce value
GuestEnforce_Unset == "normal"

\* enforce: 'pre'
GuestEnforce == "pre"

GuestPlugin == [name |-> "slidev-addon-react-jsx", enforce |-> GuestEnforce,
                hooks |-> {"transform"}]
ConfigPlugin(st) == [name |-> "slidev-addon-react-config",
                     enforce |-> IF st = 2 THEN "pre" ELSE "normal",
                     hooks |-> {"config"}]
HostPlugin == [name |-> "vite:esbuild", enforce |-> "core",
               hooks |-> {"transform"}]

\* the array defineVitePluginsSetup returns
UserPlugins(st) == <<GuestPlugin, ConfigPlugin(st)>>

\* the order the bundler runs plugins in: 'pre', its own, unmarked, 'post'
SortedPlugins(st) ==
  SelectSeq(UserPlugins(st), LAMBDA pl : pl.enforce = "pre")
    \o <<HostPlugin>>
    \o SelectSeq(UserPlugins(st), LAMBDA pl : pl.enforce = "normal")
    \o SelectSeq(UserPlugins(st), LAMBDA pl : pl.enforce = "post")

\* the plugins whose transform hook a module passes through, in order
TransformChain(st) ==
  SelectSeq(SortedPlugins(st), LAMBDA pl : "transform" \in pl.hooks)

\* the packages of the guest runtime
RuntimePackages == {"react", "react-dom", "react/jsx-runtime",
                    "react/jsx-dev-runtime"}

\* what config() returns
ConfigResult(st) ==
  [include |-> IF st = 1 THEN RuntimePackages
               ELSE RuntimePackages \cup {"react-dom/client"},
   dedupe |-> IF st = 1 THEN {} ELSE {"react", "react-dom"}]

(***************************************************************************)
(* State                                                                   *)
(***************************************************************************)
VARIABLES
  variant,     \* which <script setup> of React.vue: "scan" (glob) or "map" (index.ts)
  runtime,     \* [modulesOK, hasCreateRoot]: what the imports deliver
  phase,       \* per bridge: "setup", "mounted", "destroyed"
  container,   \* per bridge: container.value is an element
  root,        \* per bridge: 0 (null) or the index of the root in created
  registry,    \* per bridge: <<>> (null) or <<mapping>>
  is,          \* per bridge: props.is
  attrs,       \* per bridge: instance.attrs
  calls,       \* per bridge, per slot: a renderReact call suspended at an await
  created,     \* per bridge: the roots createRoot returned, in order
  lastRender,  \* per bridge: <<>> or <<the last root.render call>>
  renders,     \* per bridge: number of root.render calls
  loads,       \* per bridge: number of loadRegistry calls
  warns,       \* per bridge: number of console.warn calls
  errs,        \* per bridge: number of console.error calls
  thrown,      \* per bridge: number of renderReact calls that ended in an exception
  requested,   \* per bridge: the names props.is has had
  trace,       \* per bridge: the console.warn and root.render calls, in order
  events,      \* number of host events so far
  fattrs,      \* the bag filterProps is applied to
  cleanProps,  \* <<>> or <<the bag filterProps returned>>
  fcalls,      \* number of filterProps calls
  setup,       \* which vite-plugins setup: 1, 2 or 3
  files,       \* the files of the project, in enumeration order
  bstep,       \* position of the build: "config", "transform", "scan", "done"
  cursor,      \* [file, hook]: the file in the pipeline and the next hook
  tcode,       \* the code of that file as the next hook receives it
  tlog,        \* the transform hook calls so far, in order
  config,      \* <<>> or <<the merged result of the config hooks>>
  scanned      \* <<>> or <<the registry the directory scan built>>

bridgeVars == <<variant, runtime, phase, container, root, registry, is, attrs,
                calls, created, lastRender, renders, loads, warns, errs,
                thrown, requested, trace, events>>
filterVars == <<fattrs, cleanProps, fcalls>>
buildVars == <<setup, files, bstep, cursor, tcode, tlog, config, scanned>>
vars == <<bridgeVars, filterVars, buildVars>>

\* a call slot: pc is the await the call is suspended at, ReactComp the
\* component it resolved, seen the root it read at `if (!root)` (0: null),
\* afterRaise whether the call began after a render call of the bridge raised
Idle == [pc |-> "idle", ReactComp |-> Undefined, seen |-> 0, afterRaise |-> FALSE]

(***************************************************************************)
(* renderReact                                                             *)
(***************************************************************************)
\* the environments: everything present, the registry source missing or
\* malformed, the guest runtime without a root-creation function
Runtimes ==
  { [modulesOK |-> TRUE, hasCreateRoot |-> TRUE, renderRaises |-> FALSE],
    [modulesOK |-> FALSE, hasCreateRoot |-> TRUE, renderRaises |-> FALSE],
    [modulesOK |-> TRUE, hasCreateRoot |-> FALSE, renderRaises |-> FALSE] }

\* the environment in which the guest root's render call raises
RaisingRuntime ==
  [modulesOK |-> TRUE, hasCreateRoot |-> TRUE, renderRaises |-> TRUE]

\* a load that always ends in the catch
LoadResult_Empty == EmptyRegistry

\* what the registry source delivers: the mapping, or {} after the catch
LoadResult == IF runtime.modulesOK THEN RegistryModule ELSE EmptyRegistry

\* the inline prop loop of the "scan" script: every value under a kept key
cleanPropsScan(a) == [k \in {x \in DOMAIN a : ~SkipKey(x)} |-> a[k]]

\* the inline prop loop of the "map" script: primitives and null only
cleanPropsMap(a) ==
  [k \in {x \in DOMAIN a : ~SkipKey(x)
                           /\ (TypeOf(a[x]) # "object" \/ a[x].t = "null")} |-> a[k]]

\* the props renderReact passes to createElement
BridgeProps(a) == IF variant = "scan" THEN cleanPropsScan(a) ELSE cleanPropsMap(a)

\* renderReact calls suspended at an await, over all bridges
InFlight == {c \in Bridges \X Slots : calls[c[1]][c[2]].pc # "idle"}

\* the host instantiates the bridges one after another: bridge b exists once
\* the bridge before it has been mounted
Instantiated(b) == b = 1 \/ phase[b - 1] # "setup"

FreeSlots(b) == IF Instantiated(b) /\ Cardinality(InFlight) < MaxInFlight
                  THEN {s \in Slots : calls[b][s].pc = "idle"}
                  ELSE {}
FreeSlot(b) == CHOOSE s \in FreeSlots(b) : \A t \in FreeSlots(b) : s <= t

\* the log of bridge b with one more entry
Logged(b, ev, what) == [trace EXCEPT ![b] = Append(@, [ev |-> ev, what |-> what])]

\* the resolve step of a bridge that renders only onto a root it already has
ResolveStep_NoCreate(reg, rootv, name) ==
  LET comp == Lookup(reg, name)
  IN IF comp = Undefined
       THEN [pc |-> "idle", ReactComp |-> Undefined, warn |-> 1]
       ELSE IF rootv = 0
              THEN [pc |-> "idle", ReactComp |-> Undefined, warn |-> 0]
              ELSE [pc |-> "importReact", ReactComp |-> comp, warn |-> 0]

\* the step without `if (!ReactComp) { ... return }`
ResolveStep_NoReturn(reg, rootv, name) ==
  LET comp == Lookup(reg, name)
  IN IF rootv = 0
       THEN [pc |-> "importDom", ReactComp |-> comp, warn |-> 0]
       ELSE [pc |-> "importReact", ReactComp |-> comp, warn |-> 0]

\* from `const ReactComp = registry?.[props.is]` up to the next await
ResolveStep(reg, rootv, name) ==
  LET comp == Lookup(reg, name)
  IN IF comp = Undefined
       THEN [pc |-> "idle", ReactComp |-> Undefined, warn |-> 1]
       ELSE IF rootv = 0
              THEN [pc |-> "importDom", ReactComp |-> comp, warn |-> 0]
              ELSE [pc |-> "importReact", ReactComp |-> comp, warn |-> 0]

\* the last render call of bridge b raised
RaisedLast(b) == lastRender[b] # <<>> /\ lastRender[b][1].raised

\* renderReact without its first line
MountPointReady_Ignored(cont) == TRUE

\* if (!container.value) return
MountPointReady(cont) == cont

\* a call of renderReact on bridge b, run up to its first await (or its
\* return); cont and name are container.value and props.is as the call sees them
renderReact(b, cont, name) ==
  IF ~MountPointReady(cont)
    THEN UNCHANGED <<calls, registry, loads, warns, errs, trace>>
    ELSE IF registry[b] = <<>>
      THEN /\ loads' = [loads EXCEPT ![b] = @ + 1]
           /\ UNCHANGED <<warns, trace>>
           /\ IF variant = "scan"
                THEN \* loadRegistry has no await: it completes inside the call
                     /\ registry' = [registry EXCEPT ![b] = <<LoadResult>>]
                     /\ errs' = [errs EXCEPT ![b] = @ + (IF runtime.modulesOK THEN 0 ELSE 1)]
                     /\ calls' = [calls EXCEPT ![b][FreeSlot(b)] =
                                    [pc |-> "afterLoad", ReactComp |-> Undefined, seen |-> 0,
                                     afterRaise |-> FALSE]]
                ELSE \* loadRegistry is suspended at `await import(index.ts)`
                     /\ UNCHANGED <<registry, errs>>
                     /\ calls' = [calls EXCEPT ![b][FreeSlot(b)] =
                                    [pc |-> "loading", ReactComp |-> Undefined, seen |-> 0,
                                     afterRaise |-> FALSE]]
      ELSE LET r == ResolveStep(registry[b][1], root[b], name)
           IN /\ calls' = [calls EXCEPT ![b][FreeSlot(b)] =
                             [pc |-> r.pc, ReactComp |-> r.ReactComp,
                              seen |-> IF r.pc = "idle" THEN 0 ELSE root[b],
                              afterRaise |-> r.pc # "idle" /\ RaisedLast(b)]]
              /\ warns' = [warns EXCEPT ![b] = @ + r.warn]
              /\ trace' = IF r.warn = 1 THEN Logged(b, "warn", name) ELSE trace
              /\ UNCHANGED <<registry, loads, errs>>

(***************************************************************************)
(* Host events                                                             *)
(***************************************************************************)
\* onMounted(renderReact): the template ref is set before the hook runs
OnMount(b) ==
  /\ phase[b] = "setup"
  /\ events < MaxEvents
  /\ FreeSlots(b) # {}
  /\ events' = events + 1
  /\ phase' = [phase EXCEPT ![b] = "mounted"]
  /\ container' = [container EXCEPT ![b] = TRUE]
  /\ renderReact(b, TRUE, is[b])
  /\ UNCHANGED <<variant, runtime, root, is, attrs, created, lastRender,
                 renders, thrown, requested, filterVars, buildVars>>

\* watch(() => instance?.attrs, renderReact, { deep: true })
OnAttributesChanged(b, a) ==
  /\ events < MaxEvents
  /\ FreeSlots(b) # {}
  /\ a # attrs[b]
  /\ attrs' = [attrs EXCEPT ![b] = a]
  /\ events' = events + 1
  /\ renderReact(b, container[b], is[b])
  /\ UNCHANGED <<variant, runtime, phase, container, root, is, created,
                 lastRender, renders, thrown, requested, filterVars, buildVars>>

\* watch(() => props.is, renderReact)
OnComponentNameChanged(b, n) ==
  /\ events < MaxEvents
  /\ FreeSlots(b) # {}
  /\ n # is[b]
  /\ is' = [is EXCEPT ![b] = n]
  /\ requested' = [requested EXCEPT ![b] = @ \cup {n}]
  /\ events' = events + 1
  /\ renderReact(b, container[b], n)
  /\ UNCHANGED <<variant, runtime, phase, container, root, attrs, created,
                 lastRender, renders, thrown, filterVars, buildVars>>

\* onUnmounted without `root = null`
RootAfterUnmount_Kept(r) == r

\* root = null
RootAfterUnmount(r) == 0

\* onUnmounted(() => { root?.unmount(); root = null }); the template ref
\* has been reset to null by the time the hook runs
OnDestroy(b) ==
  /\ phase[b] = "mounted"
  /\ events < MaxEvents
  /\ events' = events + 1
  /\ phase' = [phase EXCEPT ![b] = "destroyed"]
  /\ container' = [container EXCEPT ![b] = FALSE]
  /\ created' = IF root[b] = 0 THEN created
                ELSE [created EXCEPT ![b][root[b]] =
                        [mounted |-> FALSE, unmounts |-> @.unmounts + 1]]
  /\ root' = [root EXCEPT ![b] = RootAfterUnmount(@)]
  /\ UNCHANGED <<variant, runtime, registry, is, attrs, calls, lastRender,
                 renders, loads, warns, errs, thrown, requested, trace,
                 filterVars, buildVars>>

(***************************************************************************)
(* Continuations of renderReact after each await                           *)
(***************************************************************************)
EndCall(b, s) == calls' = [calls EXCEPT ![b][s] = Idle]

\* `await import('/react-components/index.ts')` settles inside loadRegistry
LoadSettled(b, s) ==
  /\ calls[b][s].pc = "loading"
  /\ registry' = [registry EXCEPT ![b] = <<LoadResult>>]
  /\ errs' = [errs EXCEPT ![b] = @ + (IF runtime.modulesOK THEN 0 ELSE 1)]
  /\ calls' = [calls EXCEPT ![b][s].pc = "afterLoad"]
  /\ UNCHANGED <<variant, runtime, phase, container, root, is, attrs, created,
                 lastRender, renders, loads, warns, thrown, requested, trace,
                 events, filterVars, buildVars>>

\* `await loadRegistry()` settles: resolve the name
AfterLoad(b, s) ==
  /\ calls[b][s].pc = "afterLoad"
  /\ LET r == ResolveStep(registry[b][1], root[b], is[b])
     IN /\ calls' = [calls EXCEPT ![b][s] =
                          [pc |-> r.pc, ReactComp |-> r.ReactComp,
                           seen |-> IF r.pc = "idle" THEN 0 ELSE root[b],
                           afterRaise |-> FALSE]]
        /\ warns' = [warns EXCEPT ![b] = @ + r.warn]
        /\ trace' = IF r.warn = 1 THEN Logged(b, "warn", is[b]) ELSE trace
  /\ UNCHANGED <<variant, runtime, phase, container, root, registry, is, attrs,
                 created, lastRender, renders, loads, errs, thrown, requested,
                 events, filterVars, buildVars>>

\* the check with the export taken for granted
CreateRootFound_Assumed == TRUE

\* ReactDOMClient.createRoot || ReactDOMClient.default?.createRoot
CreateRootFound == runtime.hasCreateRoot

\* `await import('react-dom/client')` settles: createRoot(container.value)
AfterImportDom(b, s) ==
  /\ calls[b][s].pc = "importDom"
  /\ IF ~CreateRootFound
       THEN \* console.error('createRoot not found'); return
            /\ errs' = [errs EXCEPT ![b] = @ + 1]
            /\ EndCall(b, s)
            /\ UNCHANGED <<root, created, thrown>>
       ELSE IF ~container[b]
         THEN \* createRoot(null) throws: the call ends rejected
              /\ thrown' = [thrown EXCEPT ![b] = @ + 1]
              /\ EndCall(b, s)
              /\ UNCHANGED <<root, created, errs>>
         ELSE /\ created' = [created EXCEPT ![b] =
                               Append(@, [mounted |-> TRUE, unmounts |-> 0])]
              /\ root' = [root EXCEPT ![b] = Len(created[b]) + 1]
              /\ calls' = [calls EXCEPT ![b][s].pc = "importReact"]
              /\ UNCHANGED <<errs, thrown>>
  /\ UNCHANGED <<variant, runtime, phase, container, registry, is, attrs,
                 lastRender, renders, loads, warns, requested, trace, events,
                 filterVars, buildVars>>

\* `await import('react')` settles: build the props and root.render(...)
AfterImportReact(b, s) ==
  /\ calls[b][s].pc = "importReact"
  /\ IF root[b] = 0
       THEN \* root.render on null: TypeError, the call ends rejected
            /\ thrown' = [thrown EXCEPT ![b] = @ + 1]
            /\ UNCHANGED <<lastRender, renders, trace>>
       ELSE \* root.render(...): nothing catches what the call raises
            /\ lastRender' = [lastRender EXCEPT ![b] =
                                <<[comp |-> calls[b][s].ReactComp,
                                   props |-> BridgeProps(attrs[b]),
                                   is |-> is[b],
                                   attrs |-> attrs[b],
                                   root |-> root[b],
                                   phase |-> phase[b],
                                   raised |-> runtime.renderRaises]>>]
            /\ renders' = [renders EXCEPT ![b] = @ + 1]
            /\ trace' = Logged(b, IF runtime.renderRaises THEN "raise" ELSE "render",
                               calls[b][s].ReactComp)
            /\ thrown' = [thrown EXCEPT ![b] =
                            @ + (IF runtime.renderRaises THEN 1 ELSE 0)]
  /\ EndCall(b, s)
  /\ UNCHANGED <<variant, runtime, phase, container, root, registry, is, attrs,
                 created, loads, warns, errs, requested, events, filterVars, buildVars>>

(***************************************************************************)
(* The bridge specification                                                *)
(***************************************************************************)
BridgeInit(envs) ==
  /\ variant \in {"scan", "map"}
  /\ runtime \in envs
  /\ phase = [b \in Bridges |-> "setup"]
  /\ container = [b \in Bridges |-> FALSE]
  /\ root = [b \in Bridges |-> 0]
  /\ registry = [b \in Bridges |-> <<>>]
  /\ \E n \in Names : /\ is = [b \in Bridges |-> n]
                       /\ requested = [b \in Bridges |-> {n}]
  /\ trace = [b \in Bridges |-> <<>>]
  /\ attrs = [b \in Bridges |-> Bag0]
  /\ calls = [b \in Bridges |-> [s \in Slots |-> Idle]]
  /\ created = [b \in Bridges |-> <<>>]
  /\ lastRender = [b \in Bridges |-> <<>>]
  /\ renders = [b \in Bridges |-> 0]
  /\ loads = [b \in Bridges |-> 0]
  /\ warns = [b \in Bridges |-> 0]
  /\ errs = [b \in Bridges |-> 0]
  /\ thrown = [b \in Bridges |-> 0]
  /\ events = 0
  /\ fattrs = EmptyBag
  /\ cleanProps = <<>>
  /\ fcalls = 0
  /\ setup = 1
  /\ files = <<>>
  /\ bstep = "config"
  /\ cursor = [file |-> 1, hook |-> 1]
  /\ tcode = ""
  /\ tlog = <<>>
  /\ config = <<>>
  /\ scanned = <<>>

Next ==
  \/ \E b \in Bridges : OnMount(b)
  \/ \E b \in Bridges, a \in BridgeBags : OnAttributesChanged(b, a)
  \/ \E b \in Bridges, n \in Names : OnComponentNameChanged(b, n)
  \/ \E b \in Bridges : OnDestroy(b)
  \/ \E b \in Bridges, s \in Slots : LoadSettled(b, s)
  \/ \E b \in Bridges, s \in Slots : AfterLoad(b, s)
  \/ \E b \in Bridges, s \in Slots : AfterImportDom(b, s)
  \/ \E b \in Bridges, s \in Slots : AfterImportReact(b, s)

Init == BridgeInit(Runtimes)

Spec == Init /\ [][Next]_vars

\* a pending step of a renderReact call of the first bridge: the settling
\* of an await
Continue ==
  \E s \in Slots :
    \/ LoadSettled(1, s)
    \/ AfterLoad(1, s)
    \/ AfterImportDom(1, s)
    \/ AfterImportReact(1, s)

\* one bridge, where the registry source and the runtime imports are there
LiveInit ==
  BridgeInit({[modulesOK |-> TRUE, hasCreateRoot |-> TRUE, renderRaises |-> FALSE]})

\* the life of that bridge (the instances share no state)
LiveNext ==
  \/ OnMount(1)
  \/ \E a \in BridgeBags : OnAttributesChanged(1, a)
  \/ \E n \in Names : OnComponentNameChanged(1, n)
  \/ OnDestroy(1)
  \/ \E s \in Slots : LoadSettled(1, s)
  \/ \E s \in Slots : AfterLoad(1, s)
  \/ \E s \in Slots : AfterImportDom(1, s)
  \/ \E s \in Slots : AfterImportReact(1, s)

\* every await settles: the event loop runs a pending step
LiveSpec == LiveInit /\ [][LiveNext]_vars /\ WF_vars(Continue)

\* the bridge in the environment whose render call raises
RaiseInit == BridgeInit({RaisingRuntime})

RaiseSpec == RaiseInit /\ [][Next]_vars

(***************************************************************************)
(* The sanitizer specification: filterProps applied to a drawn bag         *)
(***************************************************************************)
BridgeQuiet ==
  /\ variant = "scan"
  /\ runtime = [modulesOK |-> TRUE, hasCreateRoot |-> TRUE, renderRaises |-> FALSE]
  /\ phase = [b \in Bridges |-> "setup"]
  /\ container = [b \in Bridges |-> FALSE]
  /\ root = [b \in Bridges |-> 0]
  /\ registry = [b \in Bridges |-> <<>>]
  /\ is = [b \in Bridges |-> "Counter"]
  /\ requested = [b \in Bridges |-> {"Counter"}]
  /\ trace = [b \in Bridges |-> <<>>]
  /\ attrs = [b \in Bridges |-> EmptyBag]
  /\ calls = [b \in Bridges |-> [s \in Slots |-> Idle]]
  /\ created = [b \in Bridges |-> <<>>]
  /\ lastRender = [b \in Bridges |-> <<>>]
  /\ renders = [b \in Bridges |-> 0]
  /\ loads = [b \in Bridges |-> 0]
  /\ warns = [b \in Bridges |-> 0]
  /\ errs = [b \in Bridges |-> 0]
  /\ thrown = [b \in Bridges |-> 0]
  /\ events = 0

FilterInit ==
  /\ BridgeQuiet
  /\ fattrs \in Bags
  /\ cleanProps = <<>>
  /\ fcalls = 0
  /\ setup = 1
  /\ files = <<>>
  /\ bstep = "config"
  /\ cursor = [file |-> 1, hook |-> 1]
  /\ tcode = ""
  /\ tlog = <<>>
  /\ config = <<>>
  /\ scanned = <<>>

\* const result = filterProps(attrs)
CallFilterProps ==
  /\ fcalls = 0
  /\ cleanProps' = <<filterProps(fattrs)>>
  /\ fcalls' = fcalls + 1
  /\ fattrs' = AttrsAfterCall(fattrs)
  /\ UNCHANGED <<bridgeVars, buildVars>>

FilterNext == CallFilterProps

FilterSpec == FilterInit /\ [][FilterNext]_vars

(***************************************************************************)
(* The build specification: config hook, transform pipeline over the       *)
(* project's files, then the directory scan                                *)
(***************************************************************************)
FilterQuiet ==
  /\ fattrs = EmptyBag
  /\ cleanProps = <<>>
  /\ fcalls = 0

BuildQuiet ==
  /\ setup = 1
  /\ files = <<>>
  /\ bstep = "config"
  /\ cursor = [file |-> 1, hook |-> 1]
  /\ tcode = ""
  /\ tlog = <<>>
  /\ config = <<>>
  /\ scanned = <<>>

\* the enumerations of up to MaxFiles distinct files of the project
Enumerations ==
  UNION { {f \in [1..n -> ProjectFiles] :
             \A i, j \in 1..n : i # j => f[i] # f[j]} : n \in 0..MaxFiles }

BuildInit ==
  /\ BridgeQuiet
  /\ FilterQuiet
  /\ setup \in Setups
  /\ files \in Enumerations
  /\ bstep = "config"
  /\ cursor = [file |-> 1, hook |-> 1]
  /\ tcode = ""
  /\ tlog = <<>>
  /\ config = <<>>
  /\ scanned = <<>>

\* the config hooks run before any module is transformed
ConfigHook ==
  /\ bstep = "config"
  /\ config' = <<ConfigResult(setup)>>
  /\ bstep' = IF files = <<>> THEN "scan" ELSE "transform"
  /\ tcode' = IF files = <<>> THEN "" ELSE files[1].code
  /\ UNCHANGED <<setup, files, cursor, tlog, scanned, bridgeVars, filterVars>>

\* the pipeline moves on: the next hook of this file, the first hook of the
\* next file, or the end of the transforms; code is what this hook leaves
Advance(code) ==
  IF cursor.hook < Len(TransformChain(setup))
    THEN /\ cursor' = [cursor EXCEPT !.hook = @ + 1]
         /\ tcode' = code
         /\ UNCHANGED bstep
    ELSE IF cursor.file < Len(files)
      THEN /\ cursor' = [file |-> cursor.file + 1, hook |-> 1]
           /\ tcode' = files[cursor.file + 1].code
           /\ UNCHANGED bstep
      ELSE /\ bstep' = "scan"
           /\ tcode' = code
           /\ UNCHANGED cursor

\* one transform hook call: a hook that returns null leaves the code as it is
HookCall(who, result) ==
  /\ tlog' = Append(tlog, [plugin |-> who,
                           id |-> files[cursor.file].path,
                           source |-> files[cursor.file].code,
                           received |-> tcode,
                           result |-> result])
  /\ Advance(IF result = Null THEN tcode ELSE result.code)
  /\ UNCHANGED <<setup, files, config, scanned, bridgeVars, filterVars>>

\* the addon's transform hook is next in the chain
GuestTransform ==
  /\ bstep = "transform"
  /\ TransformChain(setup)[cursor.hook] = GuestPlugin
  /\ HookCall("guest", transform(tcode, files[cursor.file].path, setup))

\* the bundler's own transform is next in the chain
HostTransform ==
  /\ bstep = "transform"
  /\ TransformChain(setup)[cursor.hook] = HostPlugin
  /\ HookCall("host", hostTransform(tcode, files[cursor.file].path))

\* loadRegistry of the glob script
LoadRegistryScan ==
  /\ bstep = "scan"
  /\ scanned' = <<ScanModules(EmptyScan, GlobModules(files))>>
  /\ bstep' = "done"
  /\ UNCHANGED <<setup, files, cursor, tcode, tlog, config, bridgeVars,
                 filterVars>>

BuildNext ==
  \/ ConfigHook
  \/ GuestTransform
  \/ HostTransform
  \/ LoadRegistryScan

BuildSpec == BuildInit /\ [][BuildNext]_vars

(***************************************************************************)
(* Properties of the bridge                                                *)
(***************************************************************************)
\* C1: on every bridge the root-creation function is invoked at most once,
\* so a bridge never creates more than one GuestRoot.
C1_AtMostOneRootCreation == \A b \in Bridges : Len(created[b]) <= 1

\* C2: once onDestroy has run for a bridge, no step issues a guest render
\* call or creates a guest root for that bridge, whether the request came
\* late or was suspended at an await when the destroy ran.
C2_NoRenderAfterDestroy ==
  [][\A b \in Bridges :
       phase[b] = "destroyed" =>
         /\ renders'[b] = renders[b]
         /\ lastRender'[b] = lastRender[b]
         /\ created'[b] = created[b]
         /\ root'[b] = root[b]]_vars

\* a renderReact call that was suspended when the bridge was destroyed has
\* resumed afterwards
C2_Witness == \E b \in Bridges : phase[b] = "destroyed" /\ thrown[b] > 0

\* C3: after onDestroy every root the bridge created has been unmounted
\* exactly once and the bridge's root reference is null.
C3_EveryRootUnmountedOnce ==
  \A b \in Bridges :
    phase[b] = "destroyed" =>
      /\ root[b] = 0
      /\ \A i \in 1..Len(created[b]) :
           ~created[b][i].mounted /\ created[b][i].unmounts = 1

\* C4: every guest render call uses, at the moment of the call, the
\* component the current name resolves to and the props built from the
\* current attributes.
C4_RenderUsesCurrentName ==
  \A b \in Bridges :
    lastRender[b] # <<>> =>
      LET r == lastRender[b][1]
      IN /\ r.comp = Lookup(registry[b][1], r.is)
         /\ r.props = BridgeProps(r.attrs)

\* C5: on a bridge at most one registry load is in progress at any time;
\* a request arriving during the first load starts no second one.
C5_OneLoadInFlight ==
  \A b \in Bridges : Cardinality({s \in Slots : calls[b][s].pc = "loading"}) <= 1

\* C6: the registry is constructed once for the whole process: over all
\* bridges the load step runs at most once.
C6_RegistryBuiltOnce ==
  /\ \A b \in Bridges : loads[b] <= 1
  /\ Cardinality({b \in Bridges : loads[b] > 0}) <= 1

\* C7: the props of every guest render call are exactly filterProps of the
\* attribute bag at the call.
C7_RenderPropsAreFilterProps ==
  \A b \in Bridges :
    lastRender[b] # <<>> =>
      lastRender[b][1].props = filterProps(lastRender[b][1].attrs)

\* a plain object or array (not a host tree node, not a reactive wrapper)
PlainData(val) == val.t \in {"obj", "arr"} /\ val.mark # "true"

\* C8: every attribute under a non-reserved key whose value is a plain
\* object or array reaches the guest component under that key, as the same
\* object.
C8_ObjectsReachGuest ==
  \A b \in Bridges :
    lastRender[b] # <<>> =>
      LET r == lastRender[b][1]
      IN \A k \in DOMAIN r.attrs :
           (~SkipKey(k) /\ PlainData(r.attrs[k])) =>
             (k \in DOMAIN r.props /\ r.props[k] = r.attrs[k])

(***************************************************************************)
(* Properties of filterProps                                               *)
(***************************************************************************)
\* C9: the output of filterProps has no key starting with '__', no key
\* starting with 'on', and neither the key 'class' nor the key 'style'.
C9_NoReservedKeyInOutput ==
  cleanProps # <<>> =>
    \A k \in DOMAIN cleanProps[1] :
      /\ ~(Len(k) >= 2 /\ k[1] = "_" /\ k[2] = "_")
      /\ ~(Len(k) >= 2 /\ k[1] = "o" /\ k[2] = "n")
      /\ k # <<"c","l","a","s","s">>
      /\ k # <<"s","t","y","l","e">>

\* filterProps has run on a bag with an event-handler key and a key it keeps
C9_Witness ==
  /\ cleanProps # <<>>
  /\ KOnClick \in DOMAIN fattrs
  /\ DOMAIN cleanProps[1] # {}

\* C10: a key whose top-level value carries a truthy __v_isVNode marker is
\* absent from the output; a plain object or array that merely contains a
\* marked object stays, under its key, as the same value.
C10_VNodeDroppedAtTopLevelOnly ==
  cleanProps # <<>> =>
    \A k \in DOMAIN fattrs :
      LET val == fattrs[k]
      IN /\ (val.t = "obj" /\ val.mark = "true") => k \notin DOMAIN cleanProps[1]
         /\ ( /\ ~SkipKey(k)
              /\ val.t \in {"obj", "arr"}
              /\ val.mark = "none"
              /\ \E i \in 1..Len(val.in) : val.in[i].mark = "true" )
            => (k \in DOMAIN cleanProps[1] /\ cleanProps[1][k] = val)

\* filterProps has run on a bag holding a tree node at top level and a plain
\* object with a tree node inside it
C10_Witness ==
  /\ cleanProps # <<>>
  /\ \E k \in DOMAIN fattrs : ~SkipKey(k) /\ fattrs[k] = OVNode
  /\ \E k \in DOMAIN fattrs : ~SkipKey(k) /\ fattrs[k] = ONested

\* the value a ref was made from: ref(v) holds an object v as its reactive
\* proxy, anything else as v itself
WrappedBy(r) == IF r.in[1].t = "reactive" THEN r.in[1].in[1] ELSE r.in[1]

\* C11: a ref or computed under a non-reserved key comes out as its current
\* value: sanitize(wrap(v)) = v for v a primitive, an object, an array or null.
C11_RefYieldsCurrentValue ==
  cleanProps # <<>> =>
    \A k \in DOMAIN fattrs :
      ( /\ fattrs[k].t = "ref"
        /\ ~SkipKey(k)
        /\ WrappedBy(fattrs[k]).t \in {"str", "num", "null", "obj", "arr"} )
      => (k \in DOMAIN cleanProps[1] /\ cleanProps[1][k] = WrappedBy(fattrs[k]))

\* filterProps has run on a bag with a ref of an object and a ref of null
C11_Witness ==
  /\ cleanProps # <<>>
  /\ \E k \in DOMAIN fattrs : ~SkipKey(k) /\ fattrs[k] = RConfig
  /\ \E k \in DOMAIN fattrs : ~SkipKey(k) /\ fattrs[k] = RNull

\* C12: no top-level value of the output is a reactive wrapper (a ref or a
\* reactive proxy).
C12_NoWrapperInOutput ==
  cleanProps # <<>> =>
    \A k \in DOMAIN cleanProps[1] : cleanProps[1][k].t \notin {"ref", "reactive"}

\* a host tree node at top level: the value, or the target its proxy answers
\* for, carries a truthy marker
IsTreeNode(val) ==
  \/ val.mark = "true"
  \/ val.t \in {"reactive", "readonly"} /\ val.in[1].mark = "true"

\* C13: every value that is not a tree node, a ref or a reactive proxy and
\* sits under a non-reserved key is in the output under that key, as the very
\* same value (same identity for objects and functions).
C13_OtherValuesPassByReference ==
  cleanProps # <<>> =>
    \A k \in DOMAIN fattrs :
      ( /\ ~SkipKey(k)
        /\ ~IsTreeNode(fattrs[k])
        /\ fattrs[k].t \notin {"ref", "reactive", "readonly"} )
      => (k \in DOMAIN cleanProps[1] /\ cleanProps[1][k] = fattrs[k])

\* filterProps has run on a bag with a date and a plain object under kept keys
C13_Witness ==
  /\ cleanProps # <<>>
  /\ \E k \in DOMAIN fattrs : ~SkipKey(k) /\ fattrs[k] = VDate
  /\ \E k \in DOMAIN fattrs : ~SkipKey(k) /\ fattrs[k] = OConfig

\* the four drop rules, read off the key text and the value
DroppedByRule(k, val) ==
  \/ Len(k) >= 2 /\ k[1] = "_" /\ k[2] = "_"
  \/ Len(k) >= 2 /\ k[1] = "o" /\ k[2] = "n"
  \/ k = <<"c","l","a","s","s">>
  \/ k = <<"s","t","y","l","e">>
  \/ IsTreeNode(val)

\* C14: the keys of the output are exactly the keys of the input that none
\* of the four drop rules removes.
C14_ExactKeySet ==
  cleanProps # <<>> =>
    DOMAIN cleanProps[1] = {k \in DOMAIN fattrs : ~DroppedByRule(k, fattrs[k])}

\* filterProps has run on {title, count, class, onClick, config, items}
C14_Witness ==
  /\ cleanProps # <<>>
  /\ fattrs = ScenarioBag
  /\ DOMAIN cleanProps[1] = {KTitle, KCount, KConfig, KItems}

\* C15: a call of filterProps leaves the attribute bag as it was: same keys,
\* same values.
C15_InputUntouched == [][fcalls' # fcalls => fattrs' = fattrs]_vars

\* filterProps has run on a bag with a dropped key and a value it unwrapped
C15_Witness ==
  /\ fcalls = 1
  /\ \E k \in DOMAIN fattrs : SkipKey(k)
  /\ \E k \in DOMAIN fattrs : ~SkipKey(k) /\ fattrs[k] = RConfig

(***************************************************************************)
(* Failure handling of the bridge                                          *)
(***************************************************************************)
\* no renderReact call of bridge b is suspended
Quiescent(b) == \A s \in Slots : calls[b][s].pc = "idle"

\* C17: on a bridge of a loaded registry whose name has only ever been one
\* the registry lookup does not resolve, no root is created, no render is issued, no error is
\* raised, and there is one warning per distinct unknown name, however many
\* attribute changes follow.
C17_UnknownNameWarnsOnce ==
  \A b \in Bridges :
    ( /\ runtime.modulesOK
      /\ \A n \in requested[b] : Lookup(LoadResult, n) = Undefined ) =>
      /\ created[b] = <<>>
      /\ renders[b] = 0
      /\ thrown[b] = 0
      /\ warns[b] <= Cardinality(requested[b])

\* C18: a failed resolution does not disable the bridge: once the bridge is
\* mounted with a registered name and no call is pending, every warning in
\* its log is followed by a render of the component now named, on a root.
C18_BridgeUsableAfterFailure ==
  \A b \in Bridges :
    ( /\ phase[b] = "mounted"
      /\ Quiescent(b)
      /\ runtime.hasCreateRoot
      /\ is[b] \in DOMAIN LoadResult )
    => \A i \in 1..Len(trace[b]) :
         trace[b][i].ev = "warn" =>
           /\ root[b] # 0
           /\ \E j \in (i + 1)..Len(trace[b]) :
                trace[b][j] = [ev |-> "render", what |-> LoadResult[is[b]]]

\* a mounted bridge at rest whose log has a warning and, after it, a render
\* of the registered component now named
C18_Witness ==
  \E b \in Bridges :
    /\ phase[b] = "mounted"
    /\ Quiescent(b)
    /\ is[b] \in DOMAIN LoadResult
    /\ root[b] # 0
    /\ \E i \in 1..Len(trace[b]) :
         /\ trace[b][i].ev = "warn"
         /\ \E j \in (i + 1)..Len(trace[b]) :
              trace[b][j] = [ev |-> "render", what |-> LoadResult[is[b]]]

\* C19: when the registry source fails to load, the registry is empty, a
\* diagnostic is logged, nothing is thrown, and no root is created and no
\* render issued.
C19_LoadFailureEndsUnresolved ==
  ~runtime.modulesOK =>
    \A b \in Bridges :
      /\ registry[b] # <<>> => (registry[b][1] = EmptyRegistry /\ errs[b] >= 1)
      /\ thrown[b] = 0
      /\ created[b] = <<>>
      /\ renders[b] = 0

\* C20: when the guest runtime has no root-creation function, the root
\* stays null, no render is issued, nothing is thrown, and a render attempt
\* that resolved its name has logged an error.
C20_NoCreateRootStops ==
  (~runtime.hasCreateRoot /\ runtime.modulesOK) =>
    \A b \in Bridges :
      /\ root[b] = 0
      /\ created[b] = <<>>
      /\ renders[b] = 0
      /\ thrown[b] = 0
      /\ (phase[b] = "mounted" /\ Quiescent(b)
            /\ Lookup(LoadResult, is[b]) # Undefined) => errs[b] >= 1

\* a render attempt has ended at the missing root-creation function
C20_Witness ==
  /\ ~runtime.hasCreateRoot
  /\ \E b \in Bridges : Quiescent(b) /\ errs[b] >= 1 /\ phase[b] = "mounted"

\* C19 for the names no plain object inherits (a side check: the claim
\* fails through the inherited names only)
LoadFailureOwnNames ==
  (~runtime.modulesOK /\ \A b \in Bridges : requested[b] \cap DOMAIN Inherited = {})
     => C19_LoadFailureEndsUnresolved

(***************************************************************************)
(* Registry resolution                                                     *)
(***************************************************************************)
\* C21: in every state of a bridge whose registry was loaded from the
\* registry source, resolving a registered name yields the component
\* registered under it and resolving any other name yields not-found,
\* whatever was resolved before.
C21_RegistryRoundTrip ==
  \A b \in Bridges :
    (registry[b] # <<>> /\ runtime.modulesOK) =>
      \A n \in Names :
        Lookup(registry[b][1], n) =
          IF n \in DOMAIN RegistryModule THEN RegistryModule[n] ELSE Undefined

\* C21 for the names no plain object inherits (a side check)
RoundTripOwnNames ==
  \A b \in Bridges :
    (registry[b] # <<>> /\ runtime.modulesOK) =>
      \A n \in Names \ DOMAIN Inherited :
        Lookup(registry[b][1], n) =
          IF n \in DOMAIN RegistryModule THEN RegistryModule[n] ELSE Undefined

(***************************************************************************)
(* Properties of the directory scan                                        *)
(***************************************************************************)
\* path is some directory part, then name, then '.jsx' or '.tsx', and name
\* has no '/'
DerivesName(path, name) ==
  /\ \A i \in 1..Len(name) : name[i] # "/"
  /\ \E e \in {ExtJsx, ExtTsx} :
       /\ Len(path) >= Len(name) + Len(e)
       /\ LET k == Len(path) - Len(name) - Len(e)
          IN /\ k = 0 \/ path[k] = "/"
             /\ path = SubSeq(path, 1, k) \o name \o e

\* the positions of the scanned files that have a default export
ScannedWithDefault ==
  {i \in 1..Len(files) : GlobMatch(files[i].path) /\ files[i].default # Undefined}

NCounter == <<"C","o","u","n","t","e","r">>
NCard == <<"C","a","r","d">>

\* C22: after the directory scan, every scanned file with a default export
\* is registered under its file name without directory and without the
\* .jsx/.tsx extension, every registered name comes from such a file and
\* holds the export of one, and Counter.jsx with Card.tsx yields exactly
\* "Counter" and "Card".
C22_ScanRegistersFileNames ==
  scanned # <<>> =>
    LET reg == scanned[1]
    IN /\ \A i \in ScannedWithDefault :
            \E n \in DOMAIN reg : DerivesName(files[i].path, n)
       /\ \A n \in DOMAIN reg :
            \E i \in ScannedWithDefault :
              DerivesName(files[i].path, n) /\ reg[n] = files[i].default
       /\ files = <<FCounterJsx, FCardTsx>> =>
            reg = [n \in {NCounter, NCard} |->
                     IF n = NCounter THEN "CounterFn" ELSE "CardFn"]

\* a scan over a file in a subdirectory, a file with a dot in its name and a
\* file outside the component directory
C22_Witness ==
  /\ scanned # <<>>
  /\ \E i, j, k \in 1..Len(files) :
       files[i] = FUiCardJsx /\ files[j] = FCardTestJsx /\ files[k] = FOtherJsx

\* C23: when several scanned files with a default export derive the same
\* name, the name holds the export of the one enumerated last.
C23_LastEnumeratedWins ==
  scanned # <<>> =>
    \A n \in DOMAIN scanned[1] :
      LET I == {i \in ScannedWithDefault : DerivesName(files[i].path, n)}
      IN scanned[1][n] = files[CHOOSE i \in I : \A j \in I : j <= i].default

\* a scan of two files that derive one name and export different components
C23_Witness ==
  /\ scanned # <<>>
  /\ \E i, j \in ScannedWithDefault :
       /\ i < j
       /\ files[i].default # files[j].default
       /\ \E n \in DOMAIN scanned[1] :
            DerivesName(files[i].path, n) /\ DerivesName(files[j].path, n)

(***************************************************************************)
(* Properties of the build pipeline                                        *)
(***************************************************************************)
\* the path has a directory named react-components above the file
UnderComponentDir(id) == includes(id, ComponentDir)

\* C24: the addon's transform hook returns a transformed module exactly for
\* the ids that lie under the react-components directory and end in .jsx or
\* .tsx (an empty source included) and the skip signal for every other id.
C24_TransformExactlyGuestFiles ==
  \A k \in 1..Len(tlog) :
    tlog[k].plugin = "guest" =>
      (tlog[k].result # Null
         <=> (UnderComponentDir(tlog[k].id) /\ TestJtsx(tlog[k].id)))

\* C24 apart from the ids that only contain the directory's name (a side
\* check: the empty source and the other ids behave as the claim says)
TransformApartFromLookalikes ==
  \A k \in 1..Len(tlog) :
    (tlog[k].plugin = "guest"
       /\ (includes(tlog[k].id, ReactComponents) => UnderComponentDir(tlog[k].id)))
    => (tlog[k].result # Null
          <=> (UnderComponentDir(tlog[k].id) /\ TestJtsx(tlog[k].id)))

\* C28: the addon's transform runs before the bundler's own: whenever the
\* bundler's transform receives a .jsx/.tsx module of the component
\* directory, the addon's hook has already transformed that module and the
\* code received is not guest syntax.
C28_GuestTransformFirst ==
  \A k \in 1..Len(tlog) :
    (tlog[k].plugin = "host"
       /\ UnderComponentDir(tlog[k].id) /\ TestJtsx(tlog[k].id))
    => /\ tlog[k].received # "jsx"
       /\ \E j \in 1..(k - 1) :
            /\ tlog[j].plugin = "guest"
            /\ tlog[j].id = tlog[k].id
            /\ tlog[j].result # Null

\* the bundler's transform has received the compiled form of a component
\* whose source is guest syntax
C28_Witness ==
  \E k \in 1..Len(tlog) :
    /\ tlog[k].plugin = "host"
    /\ UnderComponentDir(tlog[k].id) /\ TestJtsx(tlog[k].id)
    /\ tlog[k].source = "jsx"
    /\ tlog[k].received = "js"

\* C29: the config hook declares the guest runtime packages to the
\* dependency optimization (react, react-dom and the JSX runtimes) and the
\* runtime's packages to the de-duplication step.
C29_RuntimeDeclaredToBoth ==
  config # <<>> =>
    /\ RuntimePackages \subseteq config[1].include
    /\ {"react", "react-dom"} \subseteq config[1].dedupe

\* C29 for the setups that return resolve.dedupe (a side check)
DeclaredInLaterSetups == setup # 1 => C29_RuntimeDeclaredToBoth

(***************************************************************************)
(* Name switches, late requests and failed attempts                        *)
(***************************************************************************)
\* call s of bridge b was started when a root existed, holds a registered
\* component other than the one rendered last, and completes in this step
\* on a mounted bridge
SwitchCompletes(b, s) ==
  /\ phase[b] = "mounted"
  /\ calls[b][s].pc = "importReact"
  /\ calls[b][s].seen # 0
  /\ \E n \in DOMAIN RegistryModule : calls[b][s].ReactComp = RegistryModule[n]
  /\ lastRender[b] # <<>>
  /\ lastRender[b][1].comp # calls[b][s].ReactComp
  /\ calls'[b][s].pc = "idle"

\* the render of that call is made on the root the call saw, which is still
\* mounted, and the step creates no root
OnSameRoot(b, s) ==
  /\ renders'[b] = renders[b] + 1
  /\ lastRender'[b][1].comp = calls[b][s].ReactComp
  /\ lastRender'[b][1].root = calls[b][s].seen
  /\ created'[b] = created[b]
  /\ created[b][calls[b][s].seen].mounted

\* C25: a name change to another registered name made while the bridge has
\* a root renders the new component on that root; no root is created and
\* the root is not unmounted by the switch.
C25_SwitchRendersOnSameRoot ==
  [][\A b \in Bridges, s \in Slots : SwitchCompletes(b, s) => OnSameRoot(b, s)]_vars

\* C25 on the bridges that have created one root only (a side check)
SwitchOnSingleRoot ==
  [][\A b \in Bridges, s \in Slots :
       (SwitchCompletes(b, s) /\ Len(created[b]) <= 1) => OnSameRoot(b, s)]_vars

\* the registry source loads and bridge b has been given no name that a
\* plain object inherits
OwnNamesOnly(b) ==
  runtime.modulesOK /\ requested[b] \cap DOMAIN Inherited = {}

\* C26: on a destroyed bridge no render request has ended in an exception,
\* whether it arrived after the destroy or was resumed after it.
C26_NoErrorAfterDestroy ==
  \A b \in Bridges :
    (phase[b] = "destroyed" /\ OwnNamesOnly(b)) => thrown[b] = 0

\* C26 for the requests that arrive after the destroy (a side check): a
\* request started on a destroyed bridge suspends nowhere and raises nothing
LateRequestsReturn ==
  [][\A b \in Bridges :
       (phase[b] = "destroyed" /\ (attrs'[b] # attrs[b] \/ is'[b] # is[b]))
       => (calls'[b] = calls[b] /\ thrown'[b] = thrown[b])]_vars

\* what the slot of bridge b shows: the component of the last render while
\* the root it was made on is mounted
Shown(b) ==
  IF lastRender[b] # <<>> /\ created[b][lastRender[b][1].root].mounted
    THEN lastRender[b][1].comp
    ELSE "nothing"

\* C27: when no call is pending and the most recent attempt of a bridge
\* ended in the warning of an unresolved name, the slot shows nothing.
C27_FailedAttemptShowsNothing ==
  \A b \in Bridges :
    ( /\ OwnNamesOnly(b)
      /\ Quiescent(b)
      /\ trace[b] # <<>>
      /\ trace[b][Len(trace[b])].ev = "warn" )
    => Shown(b) = "nothing"

\* the bridge-local state a request that returns at once leaves alone
Untouched(b) ==
  /\ calls'[b] = calls[b]
  /\ registry'[b] = registry[b]
  /\ loads'[b] = loads[b]
  /\ root'[b] = root[b]
  /\ created'[b] = created[b]
  /\ renders'[b] = renders[b]
  /\ lastRender'[b] = lastRender[b]
  /\ warns'[b] = warns[b]
  /\ errs'[b] = errs[b]
  /\ thrown'[b] = thrown[b]
  /\ trace'[b] = trace[b]

\* C30: an attribute or name change that fires while the mount point is
\* not available loads no registry, creates no root, renders nothing, logs
\* nothing and starts no asynchronous step.
C30_NoMountPointNoEffect ==
  [][\A b \in Bridges :
       (~container[b] /\ phase'[b] = phase[b]
          /\ (attrs'[b] # attrs[b] \/ is'[b] # is[b]))
       => Untouched(b)]_vars

\* a bridge not yet mounted whose attributes have changed: the request was
\* made and nothing was started
C30_Witness ==
  \E b \in Bridges :
    /\ phase[b] = "setup"
    /\ attrs[b] # Bag0
    /\ loads[b] = 0
    /\ Quiescent(b)

(***************************************************************************)
(* The registry cache                                                      *)
(***************************************************************************)
\* C31: once a registry load has completed, no later render request starts
\* another load and no loaded registry changes.
C31_NoLoadAfterFirst ==
  [][(\E b \in Bridges : registry[b] # <<>>) =>
       \A c \in Bridges :
         /\ loads'[c] = loads[c]
         /\ registry[c] # <<>> => registry'[c] = registry[c]]_vars

\* C31 within one bridge (a side check): after its own load has completed a
\* bridge starts no load and its registry keeps its contents
NoReloadPerBridge ==
  [][\A b \in Bridges :
       registry[b] # <<>> =>
         (loads'[b] = loads[b] /\ registry'[b] = registry[b])]_vars

(***************************************************************************)
(* A render call that raises                                               *)
(***************************************************************************)
\* call s of a mounted bridge b with a root makes its render call in this
\* step
RenderCallMade(b, s) ==
  /\ phase[b] = "mounted"
  /\ root[b] # 0
  /\ calls[b][s].pc = "importReact"
  /\ calls'[b][s].pc = "idle"

\* the raise ends the request in an exception and leaves root and registry
\* as they were; a request begun after a raise makes its render call on the
\* root it found
RaisePropagates(b, s) ==
  /\ thrown'[b] = thrown[b] + 1
  /\ renders'[b] = renders[b] + 1
  /\ root'[b] = root[b]
  /\ created'[b] = created[b]
  /\ registry'[b] = registry[b]
  /\ calls[b][s].afterRaise => lastRender'[b][1].root = calls[b][s].seen

\* C32: where the guest root's render call raises, the exception leaves the
\* render request, root and registry stay as they were, and a request made
\* after it renders again on the same root.
C32_RaiseLeavesBridgeUsable ==
  [][\A b \in Bridges, s \in Slots :
       RenderCallMade(b, s) => RaisePropagates(b, s)]_vars

\* C32 on the bridges that have created one root only (a side check)
RaiseOnSingleRoot ==
  [][\A b \in Bridges, s \in Slots :
       (RenderCallMade(b, s) /\ Len(created[b]) <= 1) => RaisePropagates(b, s)]_vars

(***************************************************************************)
(* Progress and order of the renders                                       *)
(***************************************************************************)
\* bridge b has a root and has made a render call of the component its
\* current name is registered for
RenderedCurrent(b) ==
  /\ root[b] # 0
  /\ is[b] \in DOMAIN RegistryModule
  /\ \E i \in 1..Len(trace[b]) :
       trace[b][i] = [ev |-> "render", what |-> RegistryModule[is[b]]]

\* C33: when the registry source and the imports settle, a mounted bridge
\* with a registered name is eventually destroyed, or given an unregistered
\* name, or has made a render call of the named component on its root.
C33_MountLeadsToRender ==
  \A b \in Bridges :
    (phase[b] = "mounted" /\ is[b] \in DOMAIN RegistryModule)
      ~> (\/ RenderedCurrent(b)
          \/ phase[b] = "destroyed"
          \/ is[b] \notin DOMAIN RegistryModule)

\* a mounted bridge that has rendered the component it names
C33_Witness ==
  \E b \in Bridges : phase[b] = "mounted" /\ RenderedCurrent(b)

\* bridge b is mounted with a registered name, every request has run to its
\* end and a render call has been made
SettledWithRender(b) ==
  /\ phase[b] = "mounted"
  /\ OwnNamesOnly(b)
  /\ Quiescent(b)
  /\ is[b] \in DOMAIN RegistryModule
  /\ lastRender[b] # <<>>

\* C34: once the changes have stopped and every pending step of a mounted
\* bridge with a registered name has completed, the last render call made is
\* of the component currently named, with filterProps of the current
\* attributes: no earlier request has rendered after a later one.
C34_RendersInRequestOrder ==
  \A b \in Bridges :
    SettledWithRender(b) =>
      /\ lastRender[b][1].comp = RegistryModule[is[b]]
      /\ lastRender[b][1].props = filterProps(attrs[b])

\* C34 for the component alone (a side check)
LastRenderNamesCurrent ==
  \A b \in Bridges :
    SettledWithRender(b) => lastRender[b][1].comp = RegistryModule[is[b]]

\* C34 for the attributes, as renderReact cleans them (a side check): the
\* attributes are read after the last await of the call
LastRenderAttrsCurrent ==
  \A b \in Bridges :
    SettledWithRender(b) => lastRender[b][1].props = BridgeProps(attrs[b])

(***************************************************************************)
(* The root and the resolution                                             *)
(***************************************************************************)
\* the registry of bridge b is loaded and a name b has been given resolves
\* in it to comp, by the lookup of renderReact
ResolvedOn(b, comp) ==
  /\ registry[b] # <<>>
  /\ comp # Undefined
  /\ \E n \in requested[b] : Lookup(registry[b][1], n) = comp

\* a step in which bridge b creates a root
CreatesRoot(b) == Len(created'[b]) > Len(created[b])

\* the call that creates it has come from a successful lookup
ByResolvedCall(b) ==
  \E s \in Slots :
    /\ calls[b][s].pc = "importDom"
    /\ calls'[b][s].pc = "importReact"
    /\ ResolvedOn(b, calls[b][s].ReactComp)

\* C35: a bridge has a root only if its registry has finished loading and a
\* lookup on the bridge has succeeded, and a root is created only by a call
\* whose lookup succeeded, never by one that ended in the warning.
C35_RootOnlyAfterResolution ==
  /\ [](\A b \in Bridges :
          root[b] # 0 => \E n \in requested[b] : ResolvedOn(b, Lookup(registry[b][1], n)))
  /\ [][\A b \in Bridges : CreatesRoot(b) => ByResolvedCall(b)]_vars

\* a bridge with one root on which a request has also ended unresolved
C35_Witness ==
  \E b \in Bridges :
    /\ root[b] # 0
    /\ Len(created[b]) = 1
    /\ warns[b] > 0
    /\ renders[b] > 0

(***************************************************************************)
(* filterProps: tree nodes behind wrappers, second pass, key text          *)
(***************************************************************************)
\* C36: no value of the output of filterProps is an object with a truthy
\* __v_isVNode marker, whether the input held it bare, inside a ref or
\* behind a reactive proxy.
C36_NoTreeNodeInOutput ==
  cleanProps # <<>> =>
    \A k \in DOMAIN cleanProps[1] : ~isVNode(cleanProps[1][k])

\* C36 for the inputs that are not refs (a side check): a bare tree node and
\* a reactive proxy of one are dropped
NoTreeNodeFromNonRefs ==
  cleanProps # <<>> =>
    \A k \in DOMAIN cleanProps[1] :
      fattrs[k].t # "ref" => ~isVNode(cleanProps[1][k])

\* C37: filterProps applied to its own output changes nothing: the second
\* pass has the same keys and the same values as the first.
C37_FilterPropsIdempotent ==
  cleanProps # <<>> => filterProps(cleanProps[1]) = cleanProps[1]

\* C37 for the outputs that hold neither a ref nor a tree node (a side
\* check)
IdempotentOnPlainOutput ==
  ( /\ cleanProps # <<>>
    /\ \A k \in DOMAIN cleanProps[1] :
         ~isRef(cleanProps[1][k]) /\ ~isVNode(cleanProps[1][k]) )
  => filterProps(cleanProps[1]) = cleanProps[1]

\* the first pass left something to filter, and the output is plain
PlainOutputOfWrappers ==
  /\ cleanProps # <<>>
  /\ DOMAIN cleanProps[1] # {}
  /\ \A k \in DOMAIN cleanProps[1] :
       ~isRef(cleanProps[1][k]) /\ ~isVNode(cleanProps[1][k])
  /\ \E k \in DOMAIN cleanProps[1] : fattrs[k] # cleanProps[1][k]

\* the key text begins with the two characters c1 c2
BeginsWith(k, c1, c2) == Len(k) >= 2 /\ k[1] = c1 /\ k[2] = c2

\* the key text is one of the reserved ones
ReservedText(k) ==
  \/ BeginsWith(k, "o", "n")
  \/ BeginsWith(k, "_", "_")
  \/ k = <<"c","l","a","s","s">>
  \/ k = <<"s","t","y","l","e">>

\* C38: the key-based drops are decided by the key text alone: a key whose
\* first two characters are 'on' or '__' is absent from the output whatever
\* its value is, and a key of no reserved text that holds a function (such
\* as handleClick) is in the output with that function.
C38_KeyDropsByTextAlone ==
  cleanProps # <<>> =>
    \A k \in DOMAIN fattrs :
      /\ (BeginsWith(k, "o", "n") \/ BeginsWith(k, "_", "_"))
           => k \notin DOMAIN cleanProps[1]
      /\ (~ReservedText(k) /\ fattrs[k].t = "func")
           => (k \in DOMAIN cleanProps[1] /\ cleanProps[1][k] = fattrs[k])

\* filterProps has run on a bag with `online` holding a text and
\* `handleClick` holding a function
C38_Witness ==
  /\ cleanProps # <<>>
  /\ DOMAIN fattrs = {KOnline, KHandleClick}
  /\ fattrs[KOnline] = VHello
  /\ fattrs[KHandleClick] = VFn
  /\ DOMAIN cleanProps[1] = {KHandleClick}

(***************************************************************************)
(* Names a plain object inherits                                           *)
(***************************************************************************)
\* bridge b has only been given names that the registry source does not
\* register
NeverRegistered(b) == requested[b] \cap DOMAIN RegistryModule = {}

\* no name given to bridge b resolves, and b has no root and no render
NotFoundNoRender(b) ==
  /\ registry[b] # <<>> => \A n \in requested[b] : Lookup(registry[b][1], n) = Undefined
  /\ created[b] = <<>>
  /\ renders[b] = 0

\* C39: a name that was never registered resolves to not-found also when a
\* plain object inherits a property of that name ('constructor'): a bridge
\* given only such names creates no root and issues no render.
C39_InheritedNamesNotFound ==
  \A b \in Bridges : NeverRegistered(b) => NotFoundNoRender(b)

\* C39 for the unregistered names no plain object inherits (a side check)
UnregisteredOwnNamesNotFound ==
  \A b \in Bridges :
    (NeverRegistered(b) /\ requested[b] \cap DOMAIN Inherited = {}) => NotFoundNoRender(b)

====
